---------------------------- MODULE Spec2Model ----------------------------
(***************************************************************************)
(* A model of the R binding of the FSRS scheduler (src/rust/src/lib.rs).   *)
(*                                                                         *)
(* The binding is stateless: every exported function is a pure function of *)
(* its arguments and of the process-wide constant DEFAULT_PARAMETERS.  The *)
(* state machine is a single caller: from "idle" it calls one exported     *)
(* function with arguments drawn from bounded sets; the action computes    *)
(* the whole function body and leaves the machine in "done", holding the   *)
(* call, how it ended (returned / panicked) and what it returned; Return   *)
(* goes back to "idle".                                                    *)
(*                                                                         *)
(* Numbers.  i32, u32 and usize keep their widths (two's complement casts  *)
(* are modelled on 16-bit halves, since 2^32 is not a value of the model   *)
(* checker).  A float is NaN, +Inf, -Inf or a dyadic rational m * 2^e      *)
(* tagged with its format; narrowing f64 -> f32 rounds the significand to  *)
(* 24 bits (ties to even) and checks the exponent range.  Signed zero is   *)
(* not distinguished.  The fsrs crate is not part of the sources: a call   *)
(* into it that returns a Result ends Ok or Err nondeterministically, and  *)
(* the values it returns are kept as symbolic terms over its arguments.    *)
(***************************************************************************)
EXTENDS Integers, Sequences, FiniteSets, TLC

VARIABLES
    DEFAULT_PARAMETERS, \* the crate's constant parameter vector (f32 values)
    pc,                 \* "idle" | "done"
    call,               \* the exported function called and its arguments
    outcome,            \* "none" | "returned" | "panicked"
    result,             \* the returned list / vector / number
    fsrs,               \* the FSRS instance the call built (create_fsrs)
    used,               \* <<given rating, rating used>> pairs, in order
    items,              \* the FSRSItems built, in the order they were pushed
    cards,              \* per card of fsrs_optimize / fsrs_evaluate: its reviews and items
    built,              \* the loop over the cards ran to its end
    lib                 \* the crate calls made: <<name, arguments, Ok/Err>>

vars == <<DEFAULT_PARAMETERS, pc, call, outcome, result, fsrs, used, items, cards, built, lib>>

(***************************************************************************)
(* Bounds of the model.                                                    *)
(***************************************************************************)
MaxReviews == 3   \* longest ratings / delta_ts vector
MaxCards   == 2   \* longest card_starts vector
MaxVec     == 2   \* longest vector given to fsrs_retrievability_vec

(***************************************************************************)
(* Integers: i32, u32, usize.                                              *)
(***************************************************************************)
MaxI32 == 2147483647
MinI32 == -2147483647 - 1
Half16 == 65536

RECURSIVE GCD(_, _)
GCD(a, b) == IF b = 0 THEN a ELSE GCD(b, a % b)

Abs(x) == IF x < 0 THEN -x ELSE x

RECURSIVE Pow2(_)
Pow2(n) == IF n <= 0 THEN 1 ELSE 2 * Pow2(n - 1)

\* `x as u32` for an i32 x: the value x mod 2^32, kept as two 16-bit halves.
AsU32(x) ==
    IF x >= 0
    THEN [hi |-> x \div Half16, lo |-> x % Half16]
    ELSE LET w == (x + MaxI32) + 1   \* x + 2^31, in 0 .. 2^31 - 1
         IN  [hi |-> (w \div Half16) + 32768, lo |-> w % Half16]

U32Lit(n) == [hi |-> 0, lo |-> n]
U32Le(a, b) == a.hi < b.hi \/ (a.hi = b.hi /\ a.lo <= b.lo)
U32Min(a, b) == IF U32Le(a, b) THEN a ELSE b
U32Max(a, b) == IF U32Le(a, b) THEN b ELSE a
U32IsZero(a) == a.hi = 0 /\ a.lo = 0

\* `x as usize` for an i32 x on a 64-bit target: x mod 2^64, kept as
\* wrap * 2^64 + v (wrap = 1 exactly for a negative x).
AsUsize(x) == [wrap |-> IF x < 0 THEN 1 ELSE 0, v |-> x]
UsizeLit(n) == [wrap |-> 0, v |-> n]
UsizeLt(a, b) == a.wrap < b.wrap \/ (a.wrap = b.wrap /\ a.v < b.v)
UsizeGe(a, b) == ~UsizeLt(a, b)
UsizeGt(a, b) == UsizeLt(b, a)


\* `(rating as u32).min(4).max(1)`: the rating the binding uses.
ClampRating(rating) == U32Max(U32Min(AsU32(rating), U32Lit(4)), U32Lit(1)).lo

(***************************************************************************)
(* Floats.  fmt is "f32" or "f64"; k is "nan", "inf" (+Inf), "ninf" (-Inf) *)
(* or "fin", and then the value is m * 2^e with m odd, or m = 0 and e = 0. *)
(***************************************************************************)
NaN(fmt)  == [fmt |-> fmt, k |-> "nan",  m |-> 0, e |-> 0]
PInf(fmt) == [fmt |-> fmt, k |-> "inf",  m |-> 0, e |-> 0]
NInf(fmt) == [fmt |-> fmt, k |-> "ninf", m |-> 0, e |-> 0]

RECURSIVE Norm(_, _)
Norm(m, e) == IF m = 0 THEN <<0, 0>>
              ELSE IF m % 2 = 0 THEN Norm(m \div 2, e + 1) ELSE <<m, e>>

Fin(fmt, m, e) == LET n == Norm(m, e)
                  IN  [fmt |-> fmt, k |-> "fin", m |-> n[1], e |-> n[2]]

IsFinite(x) == x.k = "fin"
Sign(x) == CASE x.k = "nan"  -> 0
             [] x.k = "inf"  -> 1
             [] x.k = "ninf" -> -1
             [] OTHER        -> IF x.m > 0 THEN 1 ELSE IF x.m < 0 THEN -1 ELSE 0

\* `x <= 0.0` and `x > 0.0`: every comparison with NaN is false.
LeZero(x) == x.k # "nan" /\ Sign(x) <= 0
GtZero(x) == x.k # "nan" /\ Sign(x) > 0

RECURSIVE BitLen(_)
BitLen(n) == IF n = 0 THEN 0 ELSE 1 + BitLen(n \div 2)

\* Significand bits, and the exponent range, of the two formats.
SigBits(fmt) == IF fmt = "f32" THEN 24 ELSE 53
MaxExp(fmt)  == IF fmt = "f32" THEN 128 ELSE 1024      \* values are < 2^MaxExp
MinExp(fmt)  == IF fmt = "f32" THEN -149 ELSE -1074    \* the smallest subnormal

\* |m| * 2^e rounded to the nearest value of format fmt, ties to even.
RoundTo(fmt, neg, a, e) ==
    LET len   == BitLen(a)
        avail == len + e - MinExp(fmt)     \* bits above the subnormal grid
        keep  == IF avail < SigBits(fmt) THEN avail ELSE SigBits(fmt)
        shift == len - keep
        sgn   == IF neg THEN -1 ELSE 1
    IN  IF a = 0 THEN Fin(fmt, 0, 0)
        ELSE IF shift <= 0
             THEN IF len + e > MaxExp(fmt)
                  THEN (IF neg THEN NInf(fmt) ELSE PInf(fmt))
                  ELSE Fin(fmt, sgn * a, e)
        ELSE IF shift > len THEN Fin(fmt, 0, 0)   \* below half the smallest subnormal
        ELSE LET q    == a \div Pow2(shift)
                 r    == a % Pow2(shift)
                 half == Pow2(shift - 1)
                 up   == r > half \/ (r = half /\ q % 2 = 1)
                 q2   == IF up THEN q + 1 ELSE q
             IN  IF BitLen(q2) + e + shift > MaxExp(fmt)
                 THEN (IF neg THEN NInf(fmt) ELSE PInf(fmt))
                 ELSE Fin(fmt, sgn * q2, e + shift)

\* `x as f32` for an f64 x, and `x as f64` for an f32 x.
Cast(fmt, x) ==
    CASE x.k = "nan"  -> NaN(fmt)
      [] x.k = "inf"  -> PInf(fmt)
      [] x.k = "ninf" -> NInf(fmt)
      [] OTHER        -> RoundTo(fmt, x.m < 0, Abs(x.m), x.e)

AsF32(x) == Cast("f32", x)
AsF64(x) == Cast("f64", x)

\* Literals of the binding.
One  == Fin("f64", 1, 0)
Zero == Fin("f64", 0, 0)

(***************************************************************************)
(* f64 arithmetic of the retrievability formula.  A computed f64 is kept   *)
(* as the exact real it rounds: k is "nan", "inf", "ninf", "rat" (the      *)
(* rational n / d, d > 0, in lowest terms) or "pow" (the real              *)
(* (n / d) ^ DECAY, for a positive rational n / d other than 1).           *)
(***************************************************************************)
RNaN  == [k |-> "nan",  n |-> 0, d |-> 1]
RInf  == [k |-> "inf",  n |-> 0, d |-> 1]
RNInf == [k |-> "ninf", n |-> 0, d |-> 1]

Rat(n, d) ==
    LET g == GCD(Abs(n), Abs(d))
        s == IF d < 0 THEN -1 ELSE 1
    IN  [k |-> "rat", n |-> s * (n \div g), d |-> s * (d \div g)]

RSign(a) == CASE a.k = "inf"  -> 1
              [] a.k = "ninf" -> -1
              [] a.k = "rat"  -> (IF a.n > 0 THEN 1 ELSE IF a.n < 0 THEN -1 ELSE 0)
              [] OTHER        -> 0
RIsInf(a) == a.k \in {"inf", "ninf"}
RSigned(sgn) == IF sgn < 0 THEN RNInf ELSE RInf

\* The exact value of an f64 argument.
FromF64(x) ==
    CASE x.k = "nan"  -> RNaN
      [] x.k = "inf"  -> RInf
      [] x.k = "ninf" -> RNInf
      [] OTHER        -> IF x.e >= 0 THEN Rat(x.m * Pow2(x.e), 1)
                                     ELSE Rat(x.m, Pow2(-x.e))

RLit(n) == Rat(n, 1)

RMul(a, b) ==
    IF a.k = "nan" \/ b.k = "nan" THEN RNaN
    ELSE IF RIsInf(a) \/ RIsInf(b)
         THEN (IF RSign(a) * RSign(b) = 0 THEN RNaN   \* Inf * 0
               ELSE RSigned(RSign(a) * RSign(b)))
    ELSE Rat(a.n * b.n, a.d * b.d)

RDiv(a, b) ==
    IF a.k = "nan" \/ b.k = "nan" THEN RNaN
    ELSE IF RIsInf(a) THEN (IF RIsInf(b) THEN RNaN    \* Inf / Inf
                            ELSE RSigned(RSign(a) * (IF RSign(b) < 0 THEN -1 ELSE 1)))
    ELSE IF RIsInf(b) THEN RLit(0)
    ELSE IF b.n = 0 THEN (IF a.n = 0 THEN RNaN        \* 0 / 0
                          ELSE RSigned(RSign(a)))     \* x / 0
    ELSE Rat(a.n * b.d, a.d * b.n)

RAdd(a, b) ==
    IF a.k = "nan" \/ b.k = "nan" THEN RNaN
    ELSE IF RIsInf(a) /\ RIsInf(b) THEN (IF a.k = b.k THEN a ELSE RNaN)
    ELSE IF RIsInf(a) THEN a
    ELSE IF RIsInf(b) THEN b
    ELSE Rat(a.n * b.d + b.n * a.d, a.d * b.d)

DECAY  == [n |-> -1, d |-> 2]        \* const DECAY: f64 = -0.5
FACTOR == Rat(19, 81)                \* const FACTOR: f64 = 19.0 / 81.0

\* `base.powf(DECAY)`, for the negative, non-integer exponent DECAY.
PowfDecay(base) ==
    CASE base.k = "nan"  -> RNaN
      [] base.k = "inf"  -> RLit(0)
      [] base.k = "ninf" -> RLit(0)
      [] base.n < 0      -> RNaN
      [] base.n = 0      -> RInf
      [] base.n = base.d -> RLit(1)
      [] OTHER           -> [k |-> "pow", n |-> base.n, d |-> base.d]

\* fsrs_retrievability with `stability < 0.0` for `stability <= 0.0`.
fsrs_retrievability_strict(stability, elapsed_days) ==
    IF stability.k # "nan" /\ Sign(stability) < 0
    THEN RLit(1)
    ELSE PowfDecay(RAdd(RLit(1),
                        RDiv(RMul(FACTOR, FromF64(elapsed_days)), FromF64(stability))))

\* fn fsrs_retrievability(stability: f64, elapsed_days: f64) -> f64
fsrs_retrievability(stability, elapsed_days) ==
    IF LeZero(stability)
    THEN RLit(1)
    ELSE PowfDecay(RAdd(RLit(1),
                        RDiv(RMul(FACTOR, FromF64(elapsed_days)), FromF64(stability))))

Min(a, b) == IF a < b THEN a ELSE b

\* fsrs_retrievability_vec with `*s < 0.0` for `*s <= 0.0` in its closure.
fsrs_retrievability_vec_strict(stability, elapsed_days) ==
    [i \in 1 .. Min(Len(stability), Len(elapsed_days)) |->
        LET s == stability[i]
            t == elapsed_days[i]
        IN  IF s.k # "nan" /\ Sign(s) < 0
            THEN RLit(1)
            ELSE PowfDecay(RAdd(RLit(1), RDiv(RMul(FACTOR, FromF64(t)), FromF64(s))))]

\* fn fsrs_retrievability_vec(stability: Vec<f64>, elapsed_days: Vec<f64>) -> Vec<f64>
\* zip stops at the shorter vector; the closure repeats the formula.
fsrs_retrievability_vec(stability, elapsed_days) ==
    [i \in 1 .. Min(Len(stability), Len(elapsed_days)) |->
        LET s == stability[i]
            t == elapsed_days[i]
        IN  IF LeZero(s)
            THEN RLit(1)
            ELSE PowfDecay(RAdd(RLit(1), RDiv(RMul(FACTOR, FromF64(t)), FromF64(s))))]

(***************************************************************************)
(* Option<T>, and the lists the binding returns.                           *)
(***************************************************************************)
None(placeholder) == [some |-> FALSE, v |-> placeholder]
Some(v)           == [some |-> TRUE,  v |-> v]
NoParams == None(<<>>)             \* params: Option<Vec<f64>> = None
NoF64    == None(NaN("f64"))       \* an absent Option<f64>

\* error = Null::<String> and error = <a string>.
Null        == [null |-> TRUE,  msg |-> ""]
ErrorMsg(m) == [null |-> FALSE, msg |-> m]

(***************************************************************************)
(* The fsrs crate.  FSRS::new checks the parameter vector; every other     *)
(* call is kept as a term over the instance and the arguments.             *)
(***************************************************************************)
\* FSRS::new(Some(&p)): accepts a vector of the default's length whose
\* entries are all finite, rejects (Err) any other.
FSRS_new(p) ==
    IF Len(p) = Len(DEFAULT_PARAMETERS) /\ \A i \in 1 .. Len(p) : IsFinite(p[i])
    THEN [ok |-> TRUE,  w |-> p]
    ELSE [ok |-> FALSE, w |-> <<>>]

NoFsrs == [ok |-> FALSE, w |-> <<>>]

\* struct MemoryState { stability: f32, difficulty: f32 }
MemoryState(stability, difficulty) == [stability |-> stability, difficulty |-> difficulty]
NoState == None(MemoryState(NaN("f32"), NaN("f32")))

\* The value of fsrs.next_states(state, days, 0) when it is Ok.
next_states(f, state, days) == [fn |-> "next_states", w |-> f.w, state |-> state, days |-> days]

\* states.again / .hard / .good / .easy
ItemState(states, branch) == [states |-> states, branch |-> branch]

\* The value of fsrs.next_interval(Some(stability), desired_retention, 0): an f32.
next_interval(f, stability, desired_retention) ==
    [fn |-> "next_interval", w |-> f.w, stability |-> stability,
     desired_retention |-> desired_retention]

\* A record of one call into the crate that returns a Result.
LibCall(fn, ok) == [fn |-> fn, ok |-> ok]

(***************************************************************************)
(* How a call of an exported function ends.                                *)
(***************************************************************************)
NoCards == <<>>

Returned(r, f, u, its, cds, l) ==
    [outcome |-> "returned", result |-> r, fsrs |-> f, used |-> u,
     items |-> its, cards |-> cds, built |-> FALSE, lib |-> l]

\* A Rust panic: unwrap() of an Err, an index out of range, an overflow
\* under overflow checks.  No list is returned to the caller.
Panicked(why, f, u, its, cds, l) ==
    [outcome |-> "panicked", result |-> [panic |-> why], fsrs |-> f, used |-> u,
     items |-> its, cards |-> cds, built |-> FALSE, lib |-> l]

\* fn fsrs_default_parameters() -> Vec<f64>
fsrs_default_parameters ==
    [i \in 1 .. Len(DEFAULT_PARAMETERS) |-> AsF64(DEFAULT_PARAMETERS[i])]

\* create_fsrs with `None => FSRS::new(None)`: an instance without the defaults.
create_fsrs_no_defaults(params) ==
    IF params.some
    THEN LET p == params.v
             params_f32 == [i \in 1 .. Len(p) |-> AsF32(p[i])]
         IN  FSRS_new(params_f32)
    ELSE [ok |-> TRUE, w |-> <<>>]

\* fn create_fsrs(params: Option<Vec<f64>>) -> FSRS, before its unwrap().
create_fsrs(params) ==
    IF params.some
    THEN LET p == params.v
             params_f32 == [i \in 1 .. Len(p) |-> AsF32(p[i])]
         IN  FSRS_new(params_f32)
    ELSE FSRS_new(DEFAULT_PARAMETERS)

\* fn fsrs_next_interval(stability, desired_retention, params) -> f64
fsrs_next_interval(stability, desired_retention, params) ==
    LET f == create_fsrs(params)
    IN  IF ~f.ok THEN Panicked("create_fsrs: unwrap on Err", NoFsrs, <<>>, <<>>, NoCards, <<>>)
        ELSE Returned([is |-> "f64",
                       value |-> next_interval(f, Some(AsF32(stability)),
                                               AsF32(desired_retention))],
                      f, <<>>, <<>>, NoCards, <<>>)

\* match r { 1 => again, 2 => hard, 3 => good, 4 => easy, _ => good }
MatchRating(states, r) ==
    CASE r = 1 -> ItemState(states, "again")
      [] r = 2 -> ItemState(states, "hard")
      [] r = 3 -> ItemState(states, "good")
      [] r = 4 -> ItemState(states, "easy")
      [] OTHER -> ItemState(states, "good")

\* list!(stability = state.stability as f64, difficulty = state.difficulty as f64)
MemoryList(memory) == [is |-> "memory", memory |-> memory]

\* fn fsrs_initial_state(rating: i32, params) -> List
\* libOk: whether fsrs.next_states(..) is Ok.
fsrs_initial_state(rating, params, libOk) ==
    LET f == create_fsrs(params)
        r == ClampRating(rating)
        u == << <<rating, r>> >>
        l == << LibCall("next_states", libOk) >>
    IN  IF ~f.ok THEN Panicked("create_fsrs: unwrap on Err", NoFsrs, <<>>, <<>>, NoCards, <<>>)
        ELSE IF ~libOk THEN Panicked("next_states: unwrap on Err", f, u, <<>>, NoCards, l)
        ELSE Returned(MemoryList(MatchRating(next_states(f, NoState, AsF32(Zero)), r)),
                      f, u, <<>>, NoCards, l)

\* fn fsrs_next_state(stability, difficulty, elapsed_days, rating, params) -> List
fsrs_next_state(stability, difficulty, elapsed_days, rating, params, libOk) ==
    LET f == create_fsrs(params)
        state == MemoryState(AsF32(stability), AsF32(difficulty))
        r == ClampRating(rating)
        u == << <<rating, r>> >>
        l == << LibCall("next_states", libOk) >>
    IN  IF ~f.ok THEN Panicked("create_fsrs: unwrap on Err", NoFsrs, <<>>, <<>>, NoCards, <<>>)
        ELSE IF ~libOk THEN Panicked("next_states: unwrap on Err", f, u, <<>>, NoCards, l)
        ELSE Returned(MemoryList(MatchRating(next_states(f, Some(state), AsF32(elapsed_days)), r)),
                      f, u, <<>>, NoCards, l)

\* The match taking a state as soon as one of the two is supplied.
MatchStateEither(stability, difficulty) ==
    IF stability.some \/ difficulty.some
    THEN Some(MemoryState(AsF32(stability.v), AsF32(difficulty.v)))
    ELSE NoState

\* match (stability, difficulty) { (Some(s), Some(d)) => Some(MemoryState{..}), _ => None }
MatchState(stability, difficulty) ==
    IF stability.some /\ difficulty.some
    THEN Some(MemoryState(AsF32(stability.v), AsF32(difficulty.v)))
    ELSE NoState

\* fn fsrs_repeat(stability, difficulty, elapsed_days, desired_retention, params) -> List
fsrs_repeat(stability, difficulty, elapsed_days, desired_retention, params, libOk) ==
    LET f == create_fsrs(params)
        state == MatchState(stability, difficulty)
        states == next_states(f, state, AsF32(elapsed_days))
        l == << [fn |-> "next_states", ok |-> libOk, state |-> state] >>
        make_outcome(item) ==
            [memory |-> item,
             interval |-> next_interval(f, Some([memory |-> item, field |-> "stability"]),
                                        AsF32(desired_retention))]
    IN  IF ~f.ok THEN Panicked("create_fsrs: unwrap on Err", NoFsrs, <<>>, <<>>, NoCards, <<>>)
        ELSE IF ~libOk THEN Panicked("next_states: unwrap on Err", f, <<>>, <<>>, NoCards, l)
        ELSE Returned([is |-> "outcomes",
                       again |-> make_outcome(ItemState(states, "again")),
                       hard  |-> make_outcome(ItemState(states, "hard")),
                       good  |-> make_outcome(ItemState(states, "good")),
                       easy  |-> make_outcome(ItemState(states, "easy"))],
                      f, <<>>, <<>>, NoCards, l)

\* fn fsrs_from_sm2(ease_factor, interval, sm2_retention, params) -> List
fsrs_from_sm2(ease_factor, interval, sm2_retention, params, libOk) ==
    LET f == create_fsrs(params)
        l == << LibCall("memory_state_from_sm2", libOk) >>
    IN  IF ~f.ok THEN Panicked("create_fsrs: unwrap on Err", NoFsrs, <<>>, <<>>, NoCards, <<>>)
        ELSE IF ~libOk THEN Panicked("memory_state_from_sm2: unwrap on Err", f, <<>>, <<>>, NoCards, l)
        ELSE Returned(MemoryList([fn |-> "memory_state_from_sm2", w |-> f.w,
                                  ease_factor |-> AsF32(ease_factor),
                                  interval |-> AsF32(interval),
                                  sm2_retention |-> AsF32(sm2_retention)]),
                      f, <<>>, <<>>, NoCards, l)

\* struct FSRSReview { rating: u32, delta_t: u32 }
FSRSReview(rating, delta_t) == [rating |-> rating, delta_t |-> delta_t]

\* fn fsrs_memory_state(ratings, delta_ts, initial_stability, initial_difficulty, params)
fsrs_memory_state(ratings, delta_ts, initial_stability, initial_difficulty, params, libOk) ==
    LET f == create_fsrs(params)
        n == Min(Len(ratings), Len(delta_ts))     \* zip
        reviews == [i \in 1 .. n |-> FSRSReview(ClampRating(ratings[i]), AsU32(delta_ts[i]))]
        u == [i \in 1 .. n |-> <<ratings[i], ClampRating(ratings[i])>>]
        item == [reviews |-> reviews]
        initial == MatchState(initial_stability, initial_difficulty)
        l == << [fn |-> "memory_state", ok |-> libOk, state |-> initial] >>
    IN  IF ~f.ok THEN Panicked("create_fsrs: unwrap on Err", NoFsrs, <<>>, <<>>, NoCards, <<>>)
        ELSE IF ~libOk THEN Panicked("memory_state: unwrap on Err", f, u, <<>>, NoCards, l)
        ELSE Returned(MemoryList([fn |-> "memory_state", w |-> f.w, item |-> item,
                                  initial |-> initial]),
                      f, u, <<>>, NoCards, l)

(***************************************************************************)
(* Building the FSRSItems of fsrs_optimize and fsrs_evaluate (the two      *)
(* functions repeat the same code).                                        *)
(***************************************************************************)
\* `(x - 1) as usize`, the subtraction wrapping (a build without overflow
\* checks); with overflow checks x = i32::MIN panics instead.
StartIndex(x) == AsUsize(IF x = MinI32 THEN MaxI32 ELSE x - 1)

\* starts without `starts.push(ratings.len())`: the last card has no end.
StartsNoEndMarker(ratings, card_starts) ==
    [i \in 1 .. Len(card_starts) |-> StartIndex(card_starts[i])]

\* starts: card_starts converted, then ratings.len() pushed.
Starts(ratings, card_starts) ==
    [i \in 1 .. Len(card_starts) + 1 |->
        IF i <= Len(card_starts) THEN StartIndex(card_starts[i])
                                 ELSE UsizeLit(Len(ratings))]

\* for i in 2..=card_reviews.len() { if no delta_t > 0 { continue }; items.push(..) }
\* Taken from i on, with pushed the items this card pushed so far.
RECURSIVE PrefixLoop(_, _, _)
PrefixLoop(card_reviews, i, pushed) ==
    IF i > Len(card_reviews) THEN pushed
    ELSE LET slice == SubSeq(card_reviews, 1, i)
         IN  IF ~(\E k \in 1 .. Len(slice) : ~U32IsZero(slice[k].delta_t))
             THEN PrefixLoop(card_reviews, i + 1, pushed)
             ELSE PrefixLoop(card_reviews, i + 1, Append(pushed, [reviews |-> slice]))

FirstPrefix == 2

\* The items of a card with the `any(|r| r.delta_t > 0)` test left out.
CardItemsNoFilter(card_reviews) ==
    [i \in 1 .. (IF Len(card_reviews) = 0 THEN 0 ELSE Len(card_reviews) - 1) |->
        [reviews |-> SubSeq(card_reviews, 1, i + 1)]]

\* The items one card pushes.
CardItems(card_reviews) == PrefixLoop(card_reviews, FirstPrefix, <<>>)

\* Whether the window [start, end) is skipped: start >= end || end > ratings.len()
SkipWindow(start, end, len) == UsizeGe(start, end) \/ UsizeGt(end, UsizeLit(len))

\* for window in starts.windows(2) { .. }, from window w on.  acc holds the
\* items pushed, the cards built and the ratings clamped so far; a panic
\* (delta_ts[i] with i >= delta_ts.len()) ends the loop.
RECURSIVE WindowLoop(_, _, _, _, _)
WindowLoop(ratings, delta_ts, starts, w, acc) ==
    IF w >= Len(starts) THEN acc
    ELSE LET start == starts[w]
             end   == starts[w + 1]
         IN  IF SkipWindow(start, end, Len(ratings))
             THEN WindowLoop(ratings, delta_ts, starts, w + 1, acc)
             ELSE IF end.v > Len(delta_ts)
             THEN [acc EXCEPT !.panic = "delta_ts[i]: index out of bounds"]
             ELSE LET card_reviews ==
                          [j \in 1 .. (end.v - start.v) |->
                              FSRSReview(ClampRating(ratings[start.v + j]),
                                         AsU32(delta_ts[start.v + j]))]
                      pushed == CardItems(card_reviews)
                      clamped == [j \in 1 .. (end.v - start.v) |->
                                     <<ratings[start.v + j], ClampRating(ratings[start.v + j])>>]
                  IN  WindowLoop(ratings, delta_ts, starts, w + 1,
                                 [acc EXCEPT !.items = @ \o pushed,
                                             !.cards = Append(@, [window |-> w,
                                                                   reviews |-> card_reviews,
                                                                   items |-> pushed]),
                                             !.used  = @ \o clamped])

\* The first part of both functions, up to `if items.is_empty()`.
BuildItems(ratings, delta_ts, card_starts, overflow_checks) ==
    IF overflow_checks /\ \E i \in 1 .. Len(card_starts) : card_starts[i] = MinI32
    THEN [panic |-> "attempt to subtract with overflow", items |-> <<>>,
          cards |-> <<>>, used |-> <<>>]
    ELSE WindowLoop(ratings, delta_ts, Starts(ratings, card_starts), 1,
                    [panic |-> "", items |-> <<>>, cards |-> <<>>, used |-> <<>>])

\* The run r, of a call whose loop over the cards ran to its end.
Built(r) == [r EXCEPT !.built = TRUE]

\* The is_empty() test left out: no training set counts as empty.
IsEmptyNever(its) == FALSE

\* if items.is_empty() { return .. }
IsEmpty(its) == Len(its) = 0

\* fn fsrs_optimize(ratings, delta_ts, card_starts, enable_short_term) -> List
\* fitOk: whether fsrs.compute_parameters(input) is Ok.
fsrs_optimize(ratings, delta_ts, card_starts, enable_short_term, overflow_checks, fitOk) ==
    LET b == BuildItems(ratings, delta_ts, card_starts, overflow_checks)
        f == FSRS_new(DEFAULT_PARAMETERS)
        l == << [fn |-> "compute_parameters", ok |-> fitOk,
                 enable_short_term |-> enable_short_term] >>
        output == [i \in 1 .. Len(DEFAULT_PARAMETERS) |->
                      [fn |-> "compute_parameters", train_set |-> b.items,
                       enable_short_term |-> enable_short_term, index |-> i]]
    IN  IF b.panic # "" THEN Panicked(b.panic, NoFsrs, b.used, b.items, b.cards, <<>>)
        ELSE IF IsEmpty(b.items)
        THEN Built(Returned([is |-> "optimize", parameters |-> <<>>, success |-> FALSE,
                             error |-> ErrorMsg("No valid review data provided")],
                            NoFsrs, b.used, b.items, b.cards, <<>>))
        ELSE IF ~f.ok
        THEN Built(Panicked("FSRS::new: unwrap on Err", NoFsrs, b.used, b.items, b.cards, <<>>))
        ELSE IF fitOk
        THEN Built(Returned([is |-> "optimize", parameters |-> output, success |-> TRUE,
                             error |-> Null],
                            f, b.used, b.items, b.cards, l))
        ELSE Built(Returned([is |-> "optimize", parameters |-> <<>>, success |-> FALSE,
                             error |-> ErrorMsg("format!({:?}, e)")],
                            f, b.used, b.items, b.cards, l))

\* The failure list with 0.0 for f64::NAN.
EvaluateFailureZero ==
    [is |-> "evaluate", log_loss |-> Zero, rmse_bins |-> Zero, success |-> FALSE]

\* list!(log_loss = f64::NAN, rmse_bins = f64::NAN, success = false)
EvaluateFailure ==
    [is |-> "evaluate", log_loss |-> NaN("f64"), rmse_bins |-> NaN("f64"), success |-> FALSE]

\* The value of metrics.log_loss / metrics.rmse_bins when fsrs.evaluate is Ok.
Metric(name, f, its) == [fmt |-> "f64", k |-> "metric", name |-> name, w |-> f.w, items |-> its]

\* fn fsrs_evaluate(ratings, delta_ts, card_starts, params) -> List
\* evalOk: whether fsrs.evaluate(items, |_| true) is Ok.
fsrs_evaluate(ratings, delta_ts, card_starts, params, overflow_checks, evalOk) ==
    LET f == create_fsrs(Some(params))
        b == BuildItems(ratings, delta_ts, card_starts, overflow_checks)
        l == << LibCall("evaluate", evalOk) >>
    IN  IF ~f.ok THEN Panicked("create_fsrs: unwrap on Err", NoFsrs, <<>>, <<>>, NoCards, <<>>)
        ELSE IF b.panic # "" THEN Panicked(b.panic, f, b.used, b.items, b.cards, <<>>)
        ELSE IF IsEmpty(b.items)
        THEN Built(Returned(EvaluateFailure, f, b.used, b.items, b.cards, <<>>))
        ELSE IF evalOk
        THEN Built(Returned([is |-> "evaluate", log_loss |-> Metric("log_loss", f, b.items),
                             rmse_bins |-> Metric("rmse_bins", f, b.items),
                             success |-> TRUE],
                            f, b.used, b.items, b.cards, l))
        ELSE Built(Returned(EvaluateFailure, f, b.used, b.items, b.cards, l))

(***************************************************************************)
(* The arguments the caller draws from.                                    *)
(***************************************************************************)
\* Candidate values of the crate's DEFAULT_PARAMETERS (f32; the vector is
\* shortened to three entries).
DefaultCandidates ==
    { << Fin("f32", 14227079, -26), Fin("f32", 10847309, -23), Fin("f32", 4837081, -21) >>,
      << Fin("f32", 13507337, -25), Fin("f32", 4965427, -22), Fin("f32", 13308527, -22) >> }

\* Sequences over S of length at most n.
SeqUpTo(S, n) == UNION { [1 .. k -> S] : k \in 0 .. n }

\* params: absent, the defaults as fsrs_default_parameters() returns them, a
\* vector with an entry that is no f32 (2^24 + 1 scaled), and a vector of
\* the wrong length.
CustomParams ==
    { fsrs_default_parameters,
      << Fin("f64", 16777217, -24), Fin("f64", 3, -1), Fin("f64", 1, 0) >>,
      << Fin("f64", 1, 0) >> }
\* fsrs_evaluate takes params: Vec<f64>, not an Option.
EvaluateParams == { fsrs_default_parameters, << Fin("f64", 1, 0) >> }
ParamInputs == { NoParams } \cup { Some(p) : p \in CustomParams }

RatingInputs == { MinI32, -1, 0, 1, 2, 3, 4, 5, MaxI32 }

\* stability / elapsed_days of the retrievability functions.
F64Inputs == { NaN("f64"), NInf("f64"), PInf("f64"), Fin("f64", -1, 0), Zero,
               Fin("f64", 1, -1), One, Fin("f64", 10, 0) }
VecInputs == { NaN("f64"), PInf("f64"), Fin("f64", -1, 0), Zero, Fin("f64", 10, 0) }

StabilityInputs == { Zero, Fin("f64", 10, 0), Fin("f64", 16777217, -24) }
DifficultyInputs == { Fin("f64", 5, 0), NaN("f64") }
ElapsedInputs == { Zero, Fin("f64", 3, 0) }
RetentionInputs == { NaN("f64"), PInf("f64"), Fin("f64", -1, -2), Zero, Fin("f64", 1, -1),
                     Fin("f64", 7, -3), One, Fin("f64", 3, -1) }
EaseInputs == { Fin("f64", 5, -1), Zero, Fin("f64", -1, 0) }

OptF64(S) == { NoF64 } \cup { Some(x) : x \in S }

\* Reviews as <<rating, delta_t>> pairs of i32; a history is a sequence of them,
\* given as the two parallel vectors, delta_ts possibly one entry short.
ReviewInputs == { <<3, 0>>, <<-1, 2>>, <<6, -1>> }
Histories == SeqUpTo(ReviewInputs, MaxReviews)
Ratings(h) == [i \in 1 .. Len(h) |-> h[i][1]]
DeltaTs(h, cut) == [i \in 1 .. (Len(h) - cut) |-> h[i][2]]
Cuts(h) == IF Len(h) = 0 THEN {0} ELSE {0, 1}

\* card_starts entries: i32::MIN, 0, and the 1-based indices up to MaxReviews.
StartInputs == { MinI32 } \cup (0 .. MaxReviews)
CardStartInputs == SeqUpTo(StartInputs, MaxCards)

(***************************************************************************)
(* The state machine.                                                      *)
(***************************************************************************)
NoCall == [op |-> "none"]

Init ==
    /\ DEFAULT_PARAMETERS \in DefaultCandidates
    /\ pc = "idle"
    /\ call = NoCall
    /\ outcome = "none"
    /\ result = [is |-> "none"]
    /\ fsrs = NoFsrs
    /\ used = <<>>
    /\ items = <<>>
    /\ cards = NoCards
    /\ built = FALSE
    /\ lib = <<>>

\* The call c ran as r (a Returned or Panicked record).
Finish(c, r) ==
    /\ pc = "idle"
    /\ pc' = "done"
    /\ call' = c
    /\ outcome' = r.outcome
    /\ result' = r.result
    /\ fsrs' = r.fsrs
    /\ used' = r.used
    /\ items' = r.items
    /\ cards' = r.cards
    /\ built' = r.built
    /\ lib' = r.lib
    /\ UNCHANGED DEFAULT_PARAMETERS

CallDefaultParameters ==
    /\ pc = "idle"
    /\ Finish([op |-> "fsrs_default_parameters"],
              Returned([is |-> "vec", values |-> fsrs_default_parameters],
                       NoFsrs, <<>>, <<>>, NoCards, <<>>))

CallNextInterval ==
    /\ pc = "idle"
    /\ \E stability \in StabilityInputs, desired_retention \in RetentionInputs,
          params \in ParamInputs :
           Finish([op |-> "fsrs_next_interval", stability |-> stability,
                   desired_retention |-> desired_retention, params |-> params],
                  fsrs_next_interval(stability, desired_retention, params))

CallInitialState ==
    /\ pc = "idle"
    /\ \E rating \in RatingInputs, params \in ParamInputs, libOk \in BOOLEAN :
           Finish([op |-> "fsrs_initial_state", rating |-> rating, params |-> params],
                  fsrs_initial_state(rating, params, libOk))

CallNextState ==
    /\ pc = "idle"
    /\ \E stability \in StabilityInputs, difficulty \in DifficultyInputs,
          elapsed_days \in ElapsedInputs, rating \in RatingInputs,
          params \in ParamInputs, libOk \in BOOLEAN :
           Finish([op |-> "fsrs_next_state", stability |-> stability,
                   difficulty |-> difficulty, elapsed_days |-> elapsed_days,
                   rating |-> rating, params |-> params],
                  fsrs_next_state(stability, difficulty, elapsed_days, rating, params, libOk))

CallRepeat ==
    /\ pc = "idle"
    /\ \E stability \in OptF64(StabilityInputs), difficulty \in OptF64(DifficultyInputs),
          elapsed_days \in ElapsedInputs, desired_retention \in RetentionInputs,
          params \in ParamInputs, libOk \in BOOLEAN :
           Finish([op |-> "fsrs_repeat", stability |-> stability, difficulty |-> difficulty,
                   elapsed_days |-> elapsed_days, desired_retention |-> desired_retention,
                   params |-> params],
                  fsrs_repeat(stability, difficulty, elapsed_days, desired_retention,
                              params, libOk))

CallRetrievability ==
    /\ pc = "idle"
    /\ \E stability \in F64Inputs, elapsed_days \in F64Inputs :
           Finish([op |-> "fsrs_retrievability", stability |-> stability,
                   elapsed_days |-> elapsed_days],
                  Returned([is |-> "f64", value |-> fsrs_retrievability(stability, elapsed_days)],
                           NoFsrs, <<>>, <<>>, NoCards, <<>>))

CallRetrievabilityVec ==
    /\ pc = "idle"
    /\ \E stability \in SeqUpTo(VecInputs, MaxVec), elapsed_days \in SeqUpTo(VecInputs, MaxVec) :
           Finish([op |-> "fsrs_retrievability_vec", stability |-> stability,
                   elapsed_days |-> elapsed_days],
                  Returned([is |-> "vec",
                            values |-> fsrs_retrievability_vec(stability, elapsed_days)],
                           NoFsrs, <<>>, <<>>, NoCards, <<>>))

CallFromSm2 ==
    /\ pc = "idle"
    /\ \E ease_factor \in EaseInputs, interval \in ElapsedInputs,
          sm2_retention \in { Fin("f64", 7, -3), Zero },
          params \in ParamInputs, libOk \in BOOLEAN :
           Finish([op |-> "fsrs_from_sm2", ease_factor |-> ease_factor, interval |-> interval,
                   sm2_retention |-> sm2_retention, params |-> params],
                  fsrs_from_sm2(ease_factor, interval, sm2_retention, params, libOk))

CallMemoryState ==
    /\ pc = "idle"
    /\ \E h \in Histories, initial_stability \in OptF64({ Fin("f64", 10, 0) }),
          initial_difficulty \in OptF64({ Fin("f64", 5, 0) }),
          params \in ParamInputs, libOk \in BOOLEAN :
         \E cut \in Cuts(h) :
           Finish([op |-> "fsrs_memory_state", ratings |-> Ratings(h),
                   delta_ts |-> DeltaTs(h, cut), initial_stability |-> initial_stability,
                   initial_difficulty |-> initial_difficulty, params |-> params],
                  fsrs_memory_state(Ratings(h), DeltaTs(h, cut), initial_stability,
                                    initial_difficulty, params, libOk))

\* Whether the build has overflow checks matters only for i32::MIN in card_starts.
OverflowChecks(card_starts) ==
    IF \E i \in 1 .. Len(card_starts) : card_starts[i] = MinI32 THEN BOOLEAN ELSE { FALSE }

CallOptimize ==
    /\ pc = "idle"
    /\ \E h \in Histories, card_starts \in CardStartInputs,
          enable_short_term \in BOOLEAN, fitOk \in BOOLEAN :
         \E cut \in Cuts(h), overflow_checks \in OverflowChecks(card_starts) :
           Finish([op |-> "fsrs_optimize", ratings |-> Ratings(h), delta_ts |-> DeltaTs(h, cut),
                   card_starts |-> card_starts, enable_short_term |-> enable_short_term,
                   overflow_checks |-> overflow_checks],
                  fsrs_optimize(Ratings(h), DeltaTs(h, cut), card_starts, enable_short_term,
                                overflow_checks, fitOk))

CallEvaluate ==
    /\ pc = "idle"
    /\ \E h \in Histories, card_starts \in CardStartInputs,
          params \in EvaluateParams, evalOk \in BOOLEAN :
         \E cut \in Cuts(h), overflow_checks \in OverflowChecks(card_starts) :
           Finish([op |-> "fsrs_evaluate", ratings |-> Ratings(h), delta_ts |-> DeltaTs(h, cut),
                   card_starts |-> card_starts, params |-> params,
                   overflow_checks |-> overflow_checks],
                  fsrs_evaluate(Ratings(h), DeltaTs(h, cut), card_starts, params,
                                overflow_checks, evalOk))

\* The caller takes the result; nothing of the call persists.
Return ==
    /\ pc = "done"
    /\ pc' = "idle"
    /\ call' = NoCall
    /\ outcome' = "none"
    /\ result' = [is |-> "none"]
    /\ fsrs' = NoFsrs
    /\ used' = <<>>
    /\ items' = <<>>
    /\ cards' = NoCards
    /\ built' = FALSE
    /\ lib' = <<>>
    /\ UNCHANGED DEFAULT_PARAMETERS

\* The scheduling functions and the history replay.
Next ==
    \/ CallDefaultParameters
    \/ CallNextInterval
    \/ CallInitialState
    \/ CallNextState
    \/ CallRepeat
    \/ CallRetrievability
    \/ CallRetrievabilityVec
    \/ CallFromSm2
    \/ CallMemoryState
    \/ Return

Spec == Init /\ [][Next]_vars

\* The parameter optimization and evaluation functions.
NextTrain ==
    \/ CallOptimize
    \/ CallEvaluate
    \/ Return

SpecTrain == Init /\ [][NextTrain]_vars

(***************************************************************************)
(* Properties.                                                             *)
(***************************************************************************)
Done(op) == pc = "done" /\ call.op = op

\* r clamped to [1,4]: 1 below the range, 4 above it.
Saturate(r) == IF r < 1 THEN 1 ELSE IF r > 4 THEN 4 ELSE r

\* C1: every i32 rating given to fsrs_initial_state, fsrs_next_state,
\* fsrs_memory_state, fsrs_optimize or fsrs_evaluate is used as the rating
\* clamped to [1,4]: 1 when below 1 (so every negative rating is used as 1),
\* 4 when above 4, itself otherwise.
C1_RatingSaturates ==
    outcome = "returned" => \A i \in 1 .. Len(used) : used[i][2] = Saturate(used[i][1])

\* The prefix lengths of a card's reviews that carry a review with delta_t > 0.
TrainableLengths(reviews) ==
    { k \in 2 .. Len(reviews) : \E j \in 1 .. k : reviews[j].delta_t # U32Lit(0) }

RECURSIVE Flatten(_)
Flatten(ss) == IF Len(ss) = 0 THEN <<>> ELSE Head(ss) \o Flatten(Tail(ss))

\* C2: for every card fsrs_optimize builds, with n reviews, the items pushed
\* for it are exactly the prefixes of its reviews of length k, 2 <= k <= n,
\* that hold a review with elapsed days > 0: one item per such k, in
\* increasing k, and nothing else; the training set is these items, card
\* after card.
C2_ItemsArePrefixes ==
    Done("fsrs_optimize") =>
        /\ \A c \in 1 .. Len(cards) :
              LET reviews == cards[c].reviews
                  pushed  == cards[c].items
                  K       == TrainableLengths(reviews)
              IN  /\ Len(pushed) = Cardinality(K)
                  /\ \A i \in 1 .. Len(pushed) :
                        /\ Len(pushed[i].reviews) \in K
                        /\ \A j \in 1 .. Len(pushed[i].reviews) :
                              pushed[i].reviews[j] = reviews[j]
                  /\ \A i \in 1 .. Len(pushed) - 1 :
                        Len(pushed[i].reviews) < Len(pushed[i + 1].reviews)
        /\ items = Flatten([c \in 1 .. Len(cards) |-> cards[c].items])

\* C2's case: a card of three reviews whose first two have no elapsed days
\* and whose third has, so that only the prefix of length 3 is an item.
C2_Witness ==
    /\ Done("fsrs_optimize")
    /\ \E c \in 1 .. Len(cards) :
          /\ Len(cards[c].reviews) = 3
          /\ cards[c].reviews[1].delta_t = U32Lit(0)
          /\ cards[c].reviews[2].delta_t = U32Lit(0)
          /\ Len(cards[c].items) = 1
          /\ Len(cards[c].items[1].reviews) = 3

\* C3: whenever fsrs_optimize has built its training set and it is empty,
\* it returns success = false, an empty parameter vector and a non-null
\* error, and compute_parameters is never called.
C3_EmptyTrainingSetFails ==
    (Done("fsrs_optimize") /\ built /\ items = <<>>) =>
        /\ outcome = "returned"
        /\ result.success = FALSE
        /\ result.parameters = <<>>
        /\ ~result.error.null
        /\ lib = <<>>

\* C3's case: two reviews in one card, every delta_t zero, and the call failed.
C3_Witness ==
    /\ Done("fsrs_optimize")
    /\ Len(call.ratings) >= 2
    /\ Len(call.delta_ts) = Len(call.ratings)
    /\ \A i \in 1 .. Len(call.delta_ts) : call.delta_ts[i] = 0
    /\ call.card_starts = <<1>>
    /\ built /\ items = <<>>
    /\ outcome = "returned" /\ result.success = FALSE

\* C4: every run of fsrs_optimize ends in one of two outcomes: success = true
\* with the fitted parameters and a null error, or success = false with an
\* empty parameter vector and a non-null error.  (Stated for a build whose
\* subtraction wraps.)
C4_TwoOutcomes ==
    (Done("fsrs_optimize") /\ ~call.overflow_checks) =>
        /\ outcome = "returned"
        /\ \/ result.success = TRUE  /\ result.parameters # <<>> /\ result.error.null
           \/ result.success = FALSE /\ result.parameters = <<>> /\ ~result.error.null

\* C5: every call of fsrs_optimize or fsrs_evaluate returns a list with a
\* success flag, whatever ratings, delta_ts and card_starts hold; it never
\* aborts.  (Stated for a build whose subtraction wraps, and for
\* fsrs_evaluate with a parameter vector the crate accepts.)
C5_NeverAborts ==
    (/\ pc = "done"
     /\ call.op \in {"fsrs_optimize", "fsrs_evaluate"}
     /\ ~call.overflow_checks
     /\ (call.op = "fsrs_evaluate" => create_fsrs(Some(call.params)).ok)) =>
        /\ outcome = "returned"
        /\ result.success \in BOOLEAN

\* desired_retention in (0,1].
InUnitInterval(x) == x.k = "fin" /\ x.m > 0 /\ FromF64(x).n <= FromF64(x).d

\* C6: fsrs_next_interval and fsrs_repeat report a validation failure when
\* desired_retention lies outside (0,1]: a call that returns then returns
\* no interval.  (Stated for a finite desired_retention.)
C6_RetentionValidated ==
    (/\ pc = "done"
     /\ call.op \in {"fsrs_next_interval", "fsrs_repeat"}
     /\ IsFinite(call.desired_retention)
     /\ ~InUnitInterval(call.desired_retention)
     /\ outcome = "returned") =>
        result.is \notin {"f64", "outcomes"}

\* C7: when the item set fsrs_evaluate built is empty, or fsrs.evaluate is
\* Err, fsrs_evaluate returns success = false with NaN log_loss and
\* rmse_bins; a metric that is not NaN comes only with success = true.
C7_EvaluateFailureIsNaN ==
    Done("fsrs_evaluate") =>
        /\ (built /\ (items = <<>> \/ (lib # <<>> /\ ~lib[1].ok))) =>
              /\ outcome = "returned"
              /\ result.success = FALSE
              /\ result.log_loss = NaN("f64")
              /\ result.rmse_bins = NaN("f64")
        /\ (outcome = "returned"
            /\ (result.log_loss # NaN("f64") \/ result.rmse_bins # NaN("f64"))) =>
              result.success = TRUE

\* C7's case: items were built and fsrs.evaluate was Err.
C7_Witness ==
    /\ Done("fsrs_evaluate")
    /\ items # <<>>
    /\ lib # <<>> /\ ~lib[1].ok
    /\ outcome = "returned"
    /\ result.success = FALSE

\* C8: for stability and elapsed_days of the same length N,
\* fsrs_retrievability_vec returns N values, the i-th equal to
\* fsrs_retrievability(stability[i], elapsed_days[i]).
C8_VecMatchesScalar ==
    (Done("fsrs_retrievability_vec") /\ Len(call.stability) = Len(call.elapsed_days)) =>
        /\ outcome = "returned"
        /\ Len(result.values) = Len(call.stability)
        /\ \A i \in 1 .. Len(call.stability) :
              result.values[i] = fsrs_retrievability(call.stability[i], call.elapsed_days[i])

\* C8's case: two elements, the first on the convention branch (stability
\* zero), the second on the formula, giving different values.
C8_Witness ==
    /\ Done("fsrs_retrievability_vec")
    /\ Len(call.stability) = 2 /\ Len(call.elapsed_days) = 2
    /\ call.stability[1] = Zero
    /\ GtZero(call.stability[2])
    /\ Len(result.values) = 2
    /\ result.values[1] # result.values[2]

\* C9: fsrs_retrievability is exactly 1.0 for every stability <= 0, whatever
\* elapsed_days is, and for every stability > 0 at elapsed_days = 0.
C9_RetrievabilityIsOne ==
    Done("fsrs_retrievability") =>
        LET s == call.stability
            t == call.elapsed_days
        IN  /\ (s.k = "ninf" \/ (s.k = "fin" /\ s.m <= 0)) => result.value = RLit(1)
            /\ ((s.k = "inf" \/ (s.k = "fin" /\ s.m > 0)) /\ t = Zero) =>
                  result.value = RLit(1)

\* C9's case: stability zero with elapsed_days NaN, where the formula would
\* give NaN.
C9_Witness ==
    /\ Done("fsrs_retrievability")
    /\ call.stability = Zero
    /\ call.elapsed_days = NaN("f64")
    /\ result.value = RLit(1)

\* The functions taking params: Option<Vec<f64>>.
ParamOps == {"fsrs_next_interval", "fsrs_initial_state", "fsrs_next_state",
             "fsrs_repeat", "fsrs_from_sm2", "fsrs_memory_state"}

\* The call c run again with params, the crate answering Ok / Err as ok says.
RunWith(c, params, ok) ==
    CASE c.op = "fsrs_next_interval" ->
            fsrs_next_interval(c.stability, c.desired_retention, params)
      [] c.op = "fsrs_initial_state" ->
            fsrs_initial_state(c.rating, params, ok)
      [] c.op = "fsrs_next_state" ->
            fsrs_next_state(c.stability, c.difficulty, c.elapsed_days, c.rating, params, ok)
      [] c.op = "fsrs_repeat" ->
            fsrs_repeat(c.stability, c.difficulty, c.elapsed_days, c.desired_retention,
                        params, ok)
      [] c.op = "fsrs_from_sm2" ->
            fsrs_from_sm2(c.ease_factor, c.interval, c.sm2_retention, params, ok)
      [] c.op = "fsrs_memory_state" ->
            fsrs_memory_state(c.ratings, c.delta_ts, c.initial_stability,
                              c.initial_difficulty, params, ok)

\* C10: a call with params absent builds the model, and gives the result,
\* of the same call with the vector fsrs_default_parameters() returns; the
\* defaults widened to f64 and narrowed back to f32 are the defaults.
C10_AbsentParamsAreDefaults ==
    (pc = "done" /\ call.op \in ParamOps /\ ~call.params.some) =>
        LET r == RunWith(call, Some(fsrs_default_parameters),
                         IF lib = <<>> THEN TRUE ELSE lib[1].ok)
        IN  /\ fsrs = r.fsrs
            /\ outcome = r.outcome
            /\ result = r.result
            /\ \A i \in 1 .. Len(DEFAULT_PARAMETERS) :
                  AsF32(fsrs_default_parameters[i]) = DEFAULT_PARAMETERS[i]

\* C10's case: fsrs_repeat called without params, and returning.
C10_Witness ==
    /\ Done("fsrs_repeat")
    /\ ~call.params.some
    /\ outcome = "returned"
    /\ fsrs.w = DEFAULT_PARAMETERS
\* card_starts is strictly increasing, begins at 1 and has every entry <=
\* length(ratings).
WellFormedStarts(ratings, card_starts) ==
    /\ Len(card_starts) >= 1
    /\ card_starts[1] = 1
    /\ \A k \in 1 .. Len(card_starts) - 1 : card_starts[k] < card_starts[k + 1]
    /\ \A k \in 1 .. Len(card_starts) : card_starts[k] <= Len(ratings)

\* The k-th segment of the call, in the 1-based indices of the caller:
\* from card_starts[k] up to, not including, card_starts[k+1]; the last one
\* up to the end of ratings.
SegFrom(k) == call.card_starts[k]
SegEnd(k) ==
    IF k < Len(call.card_starts) THEN call.card_starts[k + 1] ELSE Len(call.ratings) + 1

\* The segment's start is not before its end, or its end lies past the last review.
SegDegenerate(k) == SegFrom(k) >= SegEnd(k) \/ SegEnd(k) > Len(call.ratings) + 1

\* The reviews of ratings / delta_ts at the positions from .. end - 1.
\* the rating as (r as u32).min(4).max(1) leaves it (a negative one as 4).
SegReviews(from, end) ==
    [j \in 1 .. (end - from) |->
        FSRSReview(Saturate(IF call.ratings[from + j - 1] < 0 THEN 4
                            ELSE call.ratings[from + j - 1]),
                   AsU32(call.delta_ts[from + j - 1]))]

\* The card is the segment of its window: positions inside ratings, and the
\* reviews at these positions.
CardIsSegment(card) ==
    /\ card.window \in 1 .. Len(call.card_starts)
    /\ 1 <= SegFrom(card.window)
    /\ SegFrom(card.window) < SegEnd(card.window)
    /\ SegEnd(card.window) <= Len(call.ratings) + 1
    /\ card.reviews = SegReviews(SegFrom(card.window), SegEnd(card.window))

\* The cards whose segment holds position i of ratings.
CardsHolding(i) ==
    { c \in 1 .. Len(cards) :
        SegFrom(cards[c].window) <= i /\ i < SegEnd(cards[c].window) }

\* C11: in fsrs_optimize and fsrs_evaluate every card built is the segment
\* of its window, cards come in the order of card_starts, every item is a
\* prefix of one card's reviews, and a segment whose start is not before its
\* end or whose end lies past the last review gives no card (so its reviews
\* reach no item through it).  When card_starts is strictly increasing,
\* begins at 1 and has every entry <= length(ratings), a call whose loop over
\* the cards ran to its end built exactly one card per entry of card_starts,
\* and every review lies in exactly one card.
C11_CardsAreSegments ==
    (pc = "done" /\ call.op \in {"fsrs_optimize", "fsrs_evaluate"}) =>
        /\ \A c \in 1 .. Len(cards) : CardIsSegment(cards[c])
        /\ \A c \in 1 .. Len(cards) - 1 : cards[c].window < cards[c + 1].window
        /\ \A c \in 1 .. Len(cards) : \A i \in 1 .. Len(cards[c].items) :
              LET item == cards[c].items[i].reviews
              IN  /\ Len(item) <= Len(cards[c].reviews)
                  /\ item = SubSeq(cards[c].reviews, 1, Len(item))
        /\ items = Flatten([c \in 1 .. Len(cards) |-> cards[c].items])
        /\ \A k \in 1 .. Len(call.card_starts) :
              SegDegenerate(k) => ~(\E c \in 1 .. Len(cards) : cards[c].window = k)
        /\ (built /\ WellFormedStarts(call.ratings, call.card_starts)) =>
              /\ Len(cards) = Len(call.card_starts)
              /\ \A c \in 1 .. Len(cards) : cards[c].window = c
              /\ \A i \in 1 .. Len(call.ratings) : Cardinality(CardsHolding(i)) = 1

\* C11's case: fsrs_evaluate on three reviews in two cards, the second card
\* of two reviews giving the only item.
C11_Witness ==
    /\ Done("fsrs_evaluate")
    /\ built
    /\ Len(call.ratings) = 3
    /\ call.card_starts = <<1, 2>>
    /\ Len(cards) = 2
    /\ Len(cards[2].reviews) = 2
    /\ Len(items) = 1
    /\ outcome = "returned"

\* The functions taking an optional prior state, and the two arguments that
\* carry it.
StateOps == {"fsrs_repeat", "fsrs_memory_state"}
PriorStability(c)  == IF c.op = "fsrs_repeat" THEN c.stability  ELSE c.initial_stability
PriorDifficulty(c) == IF c.op = "fsrs_repeat" THEN c.difficulty ELSE c.initial_difficulty

\* The call c with neither stability nor difficulty supplied.
WithoutPrior(c) ==
    IF c.op = "fsrs_repeat"
    THEN [c EXCEPT !.stability = NoF64, !.difficulty = NoF64]
    ELSE [c EXCEPT !.initial_stability = NoF64, !.initial_difficulty = NoF64]

\* C12: fsrs_repeat and fsrs_memory_state hand the crate a prior memory state
\* exactly when both stability and difficulty are supplied (then these two,
\* narrowed to f32); when exactly one is supplied the call ends as the same
\* call with neither supplied ends: same outcome, same result, same call of
\* the crate with no state.
C12_PartialStateDiscarded ==
    (pc = "done" /\ call.op \in StateOps) =>
        LET s == PriorStability(call)
            d == PriorDifficulty(call)
        IN  /\ lib # <<>> =>
                  /\ lib[1].state.some <=> (s.some /\ d.some)
                  /\ (s.some /\ d.some) =>
                        lib[1].state.v = MemoryState(AsF32(s.v), AsF32(d.v))
                  /\ ~(s.some /\ d.some) => lib[1].state = NoState
            /\ (s.some # d.some) =>
                  LET r == RunWith(WithoutPrior(call), call.params,
                                   IF lib = <<>> THEN TRUE ELSE lib[1].ok)
                  IN  /\ outcome = r.outcome
                      /\ result = r.result
                      /\ lib = r.lib
                      /\ fsrs = r.fsrs

\* C12's case: fsrs_memory_state with initial_stability alone, returning
\* the state replayed from no prior state.
C12_Witness ==
    /\ Done("fsrs_memory_state")
    /\ call.initial_stability.some
    /\ ~call.initial_difficulty.some
    /\ Len(call.ratings) >= 1
    /\ outcome = "returned"
    /\ lib[1].state = NoState

============================================================================
